---- MODULE Spec2Model ----
(***************************************************************************)
(* Model of src/python_script.py: the Streamlit voter-card extractor.      *)
(*                                                                         *)
(*   Spec       the browser session: login, the two uploaders, the START   *)
(*              EXTRACTION run (process_images, clean_json_response,       *)
(*              json.loads, the review form) and the reruns every other    *)
(*              widget interaction triggers.                               *)
(*   SpecClean  clean_json_response applied to bounded input texts.        *)
(*   SpecPdf    create_pdf, one loop step at a time.                       *)
(*                                                                         *)
(* A text is a sequence of one-character strings.  A JSON object literal   *)
(* is one element of the sequence, a string that starts with "{": the      *)
(* sanitizer only looks at backticks, the letters j s o n and white space, *)
(* so it never looks inside an object literal, and json_loads maps the     *)
(* literal to the dictionary it denotes (ObjOf).                           *)
(*                                                                         *)
(* Streamlit reruns the whole script on every widget interaction, and      *)
(* st.button is True only in the run its own click triggered.  The two     *)
(* layout calls st.columns() of main_app (lines 149 and 158) are taken to  *)
(* return their columns; as written they pass no column specification.     *)
(***************************************************************************)
EXTENDS Integers, Sequences, FiniteSets, TLC

VARIABLES
    logged_in,        \* st.session_state.logged_in
    cred_file,        \* the credential uploader's file
    uploaded_images,  \* the image uploader's files (their number)
    page,             \* what the last script run rendered
    attempt,          \* what the last START EXTRACTION run did
    environ,          \* os.environ['GOOGLE_APPLICATION_CREDENTIALS']
    cl_pc, cl_text, cl_out, cl_out2,                    \* SpecClean
    pdf_pc, pdf_data, y_position, pdf_i, pdf_page,      \* SpecPdf
    pdf_title, pdf_lines, pdf_checks, pdf_content, pdf_saved

appVars == <<logged_in, cred_file, uploaded_images, page, attempt, environ>>
cleanVars == <<cl_pc, cl_text, cl_out, cl_out2>>
pdfVars == <<pdf_pc, pdf_data, y_position, pdf_i, pdf_page, pdf_title, pdf_lines,
             pdf_checks, pdf_content, pdf_saved>>
vars == <<appVars, cleanVars, pdfVars>>

----------------------------------------------------------------------------
(* Bounds *)

MaxImages == 3
MaxPieces == 3

----------------------------------------------------------------------------
(* Texts and clean_json_response *)

\* The backquote character (SANY's lexer accepts no backquote inside a string).
Tick == "^"

Fence == <<Tick, Tick, Tick>>
FenceJson == <<Tick, Tick, Tick, "j", "s", "o", "n">>

IsSpace(c) == c \in {" ", "\n", "\t"}

StartsWith(t, p) == Len(t) >= Len(p) /\ SubSeq(t, 1, Len(p)) = p
EndsWith(t, p) == Len(t) >= Len(p) /\ SubSeq(t, Len(t) - Len(p) + 1, Len(t)) = p

\* text[n:]
DropFirst(t, n) == SubSeq(t, n + 1, Len(t))
\* text[:-n]
DropLast(t, n) == SubSeq(t, 1, Len(t) - n)

RECURSIVE LStrip(_)
LStrip(t) == IF t # <<>> /\ IsSpace(Head(t)) THEN LStrip(Tail(t)) ELSE t

RECURSIVE RStrip(_)
RStrip(t) == IF t # <<>> /\ IsSpace(t[Len(t)]) THEN RStrip(DropLast(t, 1)) ELSE t

\* str.strip()
Strip(t) == RStrip(LStrip(t))

StripJsonFence(t) == IF StartsWith(t, FenceJson) THEN DropFirst(t, 7) ELSE t
StripOpenFence(t) == IF StartsWith(t, Fence) THEN DropFirst(t, 3) ELSE t
StripCloseFence(t) == IF EndsWith(t, Fence) THEN DropLast(t, 3) ELSE t

clean_json_response(text) ==
    Strip(StripCloseFence(StripOpenFence(StripJsonFence(Strip(text)))))

----------------------------------------------------------------------------
(* Dictionaries and json.loads *)

\* The 11 keys the script reads, in the order of create_pdf's list.
CanonicalFields ==
    <<"election_number", "name", "relation_name", "gender", "date_of_birth",
      "address", "city", "state", "pincode", "electoral_registration_officer",
      "issue_date">>

FieldSet == {CanonicalFields[i] : i \in DOMAIN CanonicalFields}

EmptyDict == [k \in {} |-> ""]

\* dict.get(key, default)
Get(d, key, default) == IF key \in DOMAIN d THEN d[key] ELSE default

FullDict ==
    [f \in FieldSet |->
        CASE f = "election_number" -> "ABC1234567"
          [] f = "name" -> "ASHA RAO"
          [] f = "relation_name" -> "R RAO"
          [] f = "gender" -> "Female"
          [] f = "date_of_birth" -> "01-01-1990"
          [] f = "address" -> "12 MG ROAD"
          [] f = "city" -> "PUNE"
          [] f = "state" -> "MH"
          [] f = "pincode" -> "411001"
          [] f = "electoral_registration_officer" -> "ERO PUNE"
          [] OTHER -> "05-05-2015"]

\* The object literals a reply may hold, and the dictionary each denotes.
ObjAtoms ==
    {"{}", "{name,gender}", "{name}", "{full}", "{name,gender:F}",
     "{name,gender:empty}", "{name,photo}"}

ObjOf(a) ==
    CASE a = "{}" -> EmptyDict
      [] a = "{name,gender}" -> [name |-> "ASHA RAO", gender |-> "Female"]
      [] a = "{name}" -> [name |-> "ASHA RAO"]
      [] a = "{full}" -> FullDict
      [] a = "{name,gender:F}" -> [name |-> "ASHA RAO", gender |-> "F"]
      [] a = "{name,gender:empty}" -> [name |-> "ASHA RAO", gender |-> ""]
      [] OTHER -> [name |-> "ASHA RAO", photo |-> "yes"]

IsDigits(t) == t # <<>> /\ \A i \in DOMAIN t : t[i] = "7"

\* json.loads(text): a dictionary, another JSON value (here a number), or
\* JSONDecodeError.  White space around the value is accepted.
json_loads(text) ==
    LET s == Strip(text) IN
    IF Len(s) = 1 /\ s[1] \in ObjAtoms
        THEN [kind |-> "dict", value |-> ObjOf(s[1])]
    ELSE IF IsDigits(s)
        THEN [kind |-> "number", value |-> EmptyDict]
    ELSE [kind |-> "JSONDecodeError", value |-> EmptyDict]

----------------------------------------------------------------------------
(* process_images *)

DefaultProject == "gen-lang-client-0155506887"

\* The uploaded credential file: its content as json.load sees it.
NoCred == [uploaded |-> FALSE, json |-> "none", data |-> EmptyDict]

Creds ==
    { [uploaded |-> TRUE, json |-> "dict", data |-> [project_id |-> "p1"]],
      [uploaded |-> TRUE, json |-> "dict", data |-> [quota_project_id |-> "q1"]],
      [uploaded |-> TRUE, json |-> "dict", data |-> [type |-> "authorized_user"]],
      [uploaded |-> TRUE, json |-> "dict",
       data |-> [project_id |-> "", quota_project_id |-> "q1"]],
      [uploaded |-> TRUE, json |-> "list", data |-> EmptyDict],
      [uploaded |-> TRUE, json |-> "malformed", data |-> EmptyDict] }

\* Python truthiness of dict.get's result (a string, or None when absent).
Truthy(v) == v # "None" /\ v # ""

\* creds.get("project_id") or creds.get("quota_project_id", <default>)
ProjectId(creds) ==
    IF Truthy(Get(creds, "project_id", "None"))
        THEN creds["project_id"]
        ELSE Get(creds, "quota_project_id", DefaultProject)

\* Where the environment makes a step of process_images raise: creating the
\* temporary file, line 86 (getvalue or write), leaving the with block (the
\* flush on close), open or json.load, genai.Client, building an image part,
\* generate_content.
FailPoints ==
    {"none", "mktemp", "write", "close", "open", "client", "part", "backend"}

\* The except clause: unlink the file when the path variable is bound and the
\* file exists.  Returns whether the file exists afterwards.
ExceptCleanup(path_bound, exists) ==
    IF path_bound /\ exists THEN FALSE ELSE exists

Raised(path_bound, created, env_set, project, called) ==
    [ret |-> "None", text |-> <<>>, error_shown |-> TRUE,
     tmp_created |-> created, tmp_exists |-> ExceptCleanup(path_bound, created),
     environ_set |-> env_set, project |-> project, backend_called |-> called]

\* process_images(credential_file, image_files) in an environment that makes
\* step fail_at raise and whose backend answers reply (reply_none: its .text
\* is None).
process_images(credential_file, n_images, fail_at, reply, reply_none) ==
    IF fail_at = "mktemp" THEN Raised(FALSE, FALSE, FALSE, "None", FALSE)
    ELSE IF fail_at = "write" THEN Raised(FALSE, TRUE, FALSE, "None", FALSE)
    ELSE IF fail_at = "close" THEN Raised(TRUE, TRUE, FALSE, "None", FALSE)
    ELSE IF fail_at = "open" \/ credential_file.json # "dict"
        THEN Raised(TRUE, TRUE, TRUE, "None", FALSE)
    ELSE LET project_id == ProjectId(credential_file.data) IN
    IF fail_at = "client" THEN Raised(TRUE, TRUE, TRUE, project_id, FALSE)
    ELSE IF fail_at = "part" /\ n_images > 0
        THEN Raised(TRUE, TRUE, TRUE, project_id, FALSE)
    ELSE IF fail_at = "backend" THEN Raised(TRUE, TRUE, TRUE, project_id, TRUE)
    ELSE [ret |-> IF reply_none THEN "None" ELSE "text",
          text |-> IF reply_none THEN <<>> ELSE reply,
          error_shown |-> FALSE, tmp_created |-> TRUE, tmp_exists |-> FALSE,
          environ_set |-> TRUE, project |-> project_id, backend_called |-> TRUE]

----------------------------------------------------------------------------
(* The pages a script run renders *)

NoValues == [f \in FieldSet |-> ""]

\* kind: what the run showed below the uploaders; success: st.success was
\* shown; values: the review form's widget values; raw: the "Raw:" text area.
Page(kind, success, values, raw) ==
    [kind |-> kind, success |-> success, values |-> values, raw |-> raw]

LoginPage == Page("login", FALSE, NoValues, <<>>)
LoginErrorPage == Page("login_error", FALSE, NoValues, <<>>)
BlankPage == Page("blank", FALSE, NoValues, <<>>)
CredWarningPage == Page("warning_credential", FALSE, NoValues, <<>>)
ImagesWarningPage == Page("warning_images", FALSE, NoValues, <<>>)
ProcessingErrorPage == Page("processing_error", FALSE, NoValues, <<>>)

DUMMY_USER == "admin"
DUMMY_PASS == "password123"

Usernames == {"admin", "guest"}
Passwords == {"password123", "letmein"}

ImagesAcceptedMutant(n) == ~(n = 0 \/ n > 3)

\* not uploaded_images or len(uploaded_images) > 2, negated
ImagesAccepted(n) == ~(n = 0 \/ n > 2)

gender_opts == {"Male", "Female", "Other"}

\* gender_opts.index(json_data.get("gender", "Male")) raises ValueError
FormRaises(json_data) == Get(json_data, "gender", "Male") \notin gender_opts

\* The value each widget of the review form is created with.
FormValues(json_data) ==
    [f \in FieldSet |->
        IF f = "gender" THEN Get(json_data, "gender", "Male")
                        ELSE Get(json_data, f, "")]

\* if raw_response: ... (lines 182-313): what the run renders for the value
\* process_images returned.
RenderResponse(r) ==
    IF r.ret = "text" /\ r.text # <<>>
        THEN LET cleaned == clean_json_response(r.text)
                 parsed == json_loads(cleaned)
             IN IF parsed.kind = "JSONDecodeError"
                    THEN Page("parse_error", FALSE, NoValues, r.text)
                ELSE IF parsed.kind # "dict" \/ FormRaises(parsed.value)
                    THEN Page("parse_error", TRUE, NoValues, r.text)
                ELSE Page("form", TRUE, FormValues(parsed.value), <<>>)
    ELSE IF r.error_shown THEN ProcessingErrorPage
    ELSE BlankPage

\* What a START EXTRACTION run did: its inputs (credential, n_images), whether
\* process_images ran and what it returned (ret, text), the temporary
\* credential file of the call (tmp_created, tmp_exists), whether the backend
\* was called and for which project, and the page the run rendered (shown).
NoAttempt ==
    [started |-> FALSE, credential |-> NoCred, n_images |-> 0, ran |-> FALSE,
     fail_at |-> "none", ret |-> "None", text |-> <<>>, tmp_created |-> FALSE,
     tmp_exists |-> FALSE, backend_called |-> FALSE, project |-> "None",
     shown |-> LoginPage]

Rejected(c, n, shown) ==
    [NoAttempt EXCEPT !.started = TRUE, !.credential = c, !.n_images = n,
                      !.shown = shown]

Ran(c, n, fail_at, r, shown) ==
    [started |-> TRUE, credential |-> c, n_images |-> n, ran |-> TRUE,
     fail_at |-> fail_at, ret |-> r.ret, text |-> r.text,
     tmp_created |-> r.tmp_created, tmp_exists |-> r.tmp_exists,
     backend_called |-> r.backend_called, project |-> r.project,
     shown |-> shown]

\* The replies the backend may give.
AppReplies ==
    { <<>>,
      FenceJson \o <<"\n", "{name,gender}", "\n">> \o Fence,
      Fence \o <<"{full}">> \o Fence,
      <<"{name}">>,
      <<"{}">>,
      <<"{name,photo}">>,
      <<"{name,gender:F}">>,
      <<"{name,gender:empty}">>,
      <<"x">>,
      <<" ">>,
      <<"7">>,
      Fence \o <<" ">> \o Fence \o <<"{name}">> }

EditValues == {"", "EDITED"}

----------------------------------------------------------------------------
(* The session: one action per widget interaction, each with the script run
   it triggers *)

AppInit ==
    /\ logged_in = FALSE
    /\ cred_file = NoCred
    /\ uploaded_images = 0
    /\ page = LoginPage
    /\ attempt = NoAttempt
    /\ environ = "unset"

\* login_screen: the form's submit button
Login(username, password) ==
    /\ ~logged_in
    /\ IF username = DUMMY_USER /\ password = DUMMY_PASS
          THEN logged_in' = TRUE /\ page' = BlankPage
          ELSE logged_in' = FALSE /\ page' = LoginErrorPage
    /\ UNCHANGED <<cred_file, uploaded_images, attempt, environ>>

\* The logout button; the uploaders are not rendered by login_screen, so
\* their files are dropped.
Logout ==
    /\ logged_in
    /\ logged_in' = FALSE
    /\ page' = LoginPage
    /\ cred_file' = NoCred
    /\ uploaded_images' = 0
    /\ UNCHANGED <<attempt, environ>>

\* The credential uploader: a file is chosen or removed.  START is False in
\* the rerun, so nothing below the uploaders is rendered.
UploadCredential(c) ==
    /\ logged_in
    /\ cred_file' = c
    /\ page' = BlankPage
    /\ UNCHANGED <<logged_in, uploaded_images, attempt, environ>>

\* The image uploader (accept_multiple_files)
UploadImages(n) ==
    /\ logged_in
    /\ uploaded_images' = n
    /\ page' = BlankPage
    /\ UNCHANGED <<logged_in, cred_file, attempt, environ>>

\* The START EXTRACTION button and the run it triggers (lines 173-313)
StartExtraction(fail_at, reply, reply_none) ==
    /\ logged_in
    /\ IF ~cred_file.uploaded
          THEN /\ page' = CredWarningPage
               /\ attempt' = Rejected(cred_file, uploaded_images, CredWarningPage)
               /\ UNCHANGED environ
       ELSE IF ~ImagesAccepted(uploaded_images)
          THEN /\ page' = ImagesWarningPage
               /\ attempt' = Rejected(cred_file, uploaded_images, ImagesWarningPage)
               /\ UNCHANGED environ
       ELSE LET r == process_images(cred_file, uploaded_images, fail_at,
                                    reply, reply_none)
            IN /\ attempt' = Ran(cred_file, uploaded_images, fail_at, r,
                                 RenderResponse(r))
               /\ environ' = IF r.environ_set THEN "tmp_cred_path" ELSE environ
               /\ page' = RenderResponse(r)
    /\ UNCHANGED <<logged_in, cred_file, uploaded_images>>

\* A widget of the review form is changed.  The rerun finds START False: the
\* form is not rendered and its widget values are dropped.
EditField(f, v) ==
    /\ logged_in
    /\ page.kind = "form"
    /\ page' = BlankPage
    /\ UNCHANGED <<logged_in, cred_file, uploaded_images, attempt, environ>>

\* APPROVE & DOWNLOAD: the rerun finds START False, so lines 271-301 (the
\* final record, create_pdf, the two downloads) are not reached.
Approve ==
    /\ logged_in
    /\ page.kind = "form"
    /\ page' = BlankPage
    /\ UNCHANGED <<logged_in, cred_file, uploaded_images, attempt, environ>>

\* Re-extract: likewise, st.rerun() is not reached.
ReExtract ==
    /\ logged_in
    /\ page.kind = "form"
    /\ page' = BlankPage
    /\ UNCHANGED <<logged_in, cred_file, uploaded_images, attempt, environ>>

\* Raw JSON: likewise, st.code is not reached.
RawJson ==
    /\ logged_in
    /\ page.kind = "form"
    /\ page' = BlankPage
    /\ UNCHANGED <<logged_in, cred_file, uploaded_images, attempt, environ>>

----------------------------------------------------------------------------
(* clean_json_response on bounded inputs *)

Pieces == {FenceJson, Fence, <<Tick>>, <<" ">>, <<"\n">>, <<"{name}">>, <<"x">>}

\* The texts made of at most n pieces.
RECURSIVE TextsOf(_)
TextsOf(n) ==
    IF n = 0 THEN {<<>>}
    ELSE LET shorter == TextsOf(n - 1)
         IN shorter \cup {p \o t : p \in Pieces, t \in shorter}

CleanIdle ==
    /\ cl_pc = "idle"
    /\ cl_text = <<>>
    /\ cl_out = <<>>
    /\ cl_out2 = <<>>

CleanInit ==
    /\ cl_pc = "start"
    /\ cl_text \in TextsOf(MaxPieces)
    /\ cl_out = <<>>
    /\ cl_out2 = <<>>

CleanOnce ==
    /\ cl_pc = "start"
    /\ cl_out' = clean_json_response(cl_text)
    /\ cl_pc' = "cleaned"
    /\ UNCHANGED <<cl_text, cl_out2>>

CleanAgain ==
    /\ cl_pc = "cleaned"
    /\ cl_out2' = clean_json_response(cl_out)
    /\ cl_pc' = "done"
    /\ UNCHANGED <<cl_text, cl_out>>

----------------------------------------------------------------------------
(* create_pdf *)

\* reportlab.lib.pagesizes.letter is (612, 792)
PageHeight == 792
LineHeight == 22
BottomMargin == 60
TopMargin == 60

\* The labels of the fields list, each as its words.
PdfLabels ==
    << <<"Election", "Number">>, <<"Voter", "Name">>, <<"Relation", "Name">>,
       <<"Gender">>, <<"Date", "of", "Birth">>, <<"Address">>, <<"City">>,
       <<"State">>, <<"Pincode">>, <<"ERO">>, <<"Issue", "Date">> >>

LongValue == "AN ADDRESS OF 81 CHARACTERS"
LongValueCut == "AN ADDRESS OF 81 CHARACTERS, ITS FIRST 80"

\* str(value)[:80]; every other value of the model is shorter than 80.
Truncate(value) == IF value = LongValue THEN LongValueCut ELSE value

NeedsPageBreakMutant(y) == y > BottomMargin

\* if y_position < 60
NeedsPageBreak(y) == y < BottomMargin

AshaRecord == [NoValues EXCEPT !["name"] = "ASHA RAO", !["gender"] = "Female"]

PdfInputs ==
    { FullDict,
      AshaRecord,
      NoValues,
      EmptyDict,
      [name |-> "ASHA RAO"],
      [FullDict EXCEPT !["address"] = LongValue],
      [FullDict EXCEPT !["election_number"] = ""] }

PdfIdle ==
    /\ pdf_pc = "idle"
    /\ pdf_data = EmptyDict
    /\ y_position = 0
    /\ pdf_i = 0
    /\ pdf_page = 0
    /\ pdf_title = <<>>
    /\ pdf_lines = <<>>
    /\ pdf_checks = 0
    /\ pdf_content = FALSE
    /\ pdf_saved = 0

PdfInit ==
    /\ pdf_pc = "start"
    /\ pdf_data \in PdfInputs
    /\ y_position = 0
    /\ pdf_i = 0
    /\ pdf_page = 0
    /\ pdf_title = <<>>
    /\ pdf_lines = <<>>
    /\ pdf_checks = 0
    /\ pdf_content = FALSE
    /\ pdf_saved = 0

\* Lines 40-63: the canvas, the two heading lines, the cursor, the list.
\* (The first heading starts with an emoji, left out of the text here.)
PdfBegin ==
    /\ pdf_pc = "start"
    /\ pdf_page' = 1
    /\ pdf_title' = << [y |-> PageHeight - 60, text |-> "Voter ID Extraction Report"],
                       [y |-> PageHeight - 85, text |-> "Verified Details from EPIC Card"] >>
    /\ pdf_content' = TRUE
    /\ y_position' = PageHeight - 110
    /\ pdf_i' = 1
    /\ pdf_pc' = "draw"
    /\ UNCHANGED <<pdf_data, pdf_lines, pdf_checks, pdf_saved>>

\* Lines 66-71: the label at x = 50, the value at x = 150, the cursor down.
PdfDraw ==
    /\ pdf_pc = "draw"
    /\ pdf_lines' = Append(pdf_lines,
                       [page |-> pdf_page, y |-> y_position,
                        label |-> PdfLabels[pdf_i],
                        text |-> Truncate(Get(pdf_data, CanonicalFields[pdf_i], ""))])
    /\ pdf_content' = TRUE
    /\ y_position' = y_position - LineHeight
    /\ pdf_pc' = "check"
    /\ UNCHANGED <<pdf_data, pdf_i, pdf_page, pdf_title, pdf_checks, pdf_saved>>

\* Lines 73-75, and the loop's next iteration or its end.
PdfCheck ==
    /\ pdf_pc = "check"
    /\ IF NeedsPageBreak(y_position)
          THEN /\ pdf_page' = pdf_page + 1
               /\ pdf_content' = FALSE
               /\ y_position' = PageHeight - TopMargin
          ELSE UNCHANGED <<pdf_page, pdf_content, y_position>>
    /\ pdf_checks' = pdf_checks + 1
    /\ pdf_i' = pdf_i + 1
    /\ pdf_pc' = IF pdf_i = Len(CanonicalFields) THEN "save" ELSE "draw"
    /\ UNCHANGED <<pdf_data, pdf_title, pdf_lines, pdf_saved>>

\* Lines 77-79: Canvas.save() ends the current page when it has content.
PdfSave ==
    /\ pdf_pc = "save"
    /\ pdf_saved' = IF pdf_content THEN pdf_page ELSE pdf_page - 1
    /\ pdf_pc' = "done"
    /\ UNCHANGED <<pdf_data, y_position, pdf_i, pdf_page, pdf_title, pdf_lines,
                   pdf_checks, pdf_content>>

----------------------------------------------------------------------------
(* Specifications *)

Init == AppInit /\ CleanIdle /\ PdfIdle

Next ==
    \/ \E u \in Usernames, p \in Passwords :
          Login(u, p) /\ UNCHANGED <<cleanVars, pdfVars>>
    \/ Logout /\ UNCHANGED <<cleanVars, pdfVars>>
    \/ \E c \in Creds \cup {NoCred} :
          UploadCredential(c) /\ UNCHANGED <<cleanVars, pdfVars>>
    \/ \E n \in 0..MaxImages :
          UploadImages(n) /\ UNCHANGED <<cleanVars, pdfVars>>
    \/ \E fail_at \in FailPoints, reply \in AppReplies, reply_none \in BOOLEAN :
          StartExtraction(fail_at, reply, reply_none)
             /\ UNCHANGED <<cleanVars, pdfVars>>
    \/ \E f \in FieldSet, v \in EditValues :
          EditField(f, v) /\ UNCHANGED <<cleanVars, pdfVars>>
    \/ Approve /\ UNCHANGED <<cleanVars, pdfVars>>
    \/ ReExtract /\ UNCHANGED <<cleanVars, pdfVars>>
    \/ RawJson /\ UNCHANGED <<cleanVars, pdfVars>>

Spec == Init /\ [][Next]_vars

InitClean == AppInit /\ CleanInit /\ PdfIdle

NextClean ==
    \/ CleanOnce /\ UNCHANGED <<appVars, pdfVars>>
    \/ CleanAgain /\ UNCHANGED <<appVars, pdfVars>>

SpecClean == InitClean /\ [][NextClean]_vars

InitPdf == AppInit /\ CleanIdle /\ PdfInit

NextPdf ==
    \/ PdfBegin /\ UNCHANGED <<appVars, cleanVars>>
    \/ PdfDraw /\ UNCHANGED <<appVars, cleanVars>>
    \/ PdfCheck /\ UNCHANGED <<appVars, cleanVars>>
    \/ PdfSave /\ UNCHANGED <<appVars, cleanVars>>

SpecPdf == InitPdf /\ [][NextPdf]_vars

----------------------------------------------------------------------------
(* Claims *)

\* C1: when process_images has returned, by its return statement or through
\* its except clause, the temporary credential file of the call is gone.
C1_TempCredentialGone == attempt.ran => ~attempt.tmp_exists

\* C2: a START EXTRACTION run with 0 or more than 2 images is rejected with a
\* warning, process_images does not run and the backend is not called; the
\* backend is called only in a run with 1 or 2 images and a credential.
C2_ImageCountGate ==
    /\ (attempt.started /\ attempt.n_images \notin 1..2) =>
          /\ attempt.shown.kind \in {"warning_credential", "warning_images"}
          /\ attempt.credential.uploaded => attempt.shown.kind = "warning_images"
          /\ ~attempt.ran
          /\ ~attempt.backend_called
    /\ attempt.backend_called =>
          (attempt.n_images \in 1..2 /\ attempt.credential.uploaded)

\* C2's case: a run with 3 images and a credential was rejected.
C2_Witness ==
    /\ attempt.started
    /\ attempt.n_images = 3
    /\ attempt.credential.uploaded
    /\ attempt.shown = ImagesWarningPage
    /\ ~attempt.backend_called

\* C3: clean_json_response is idempotent: cleaning a cleaned text changes
\* nothing.
C3_Idempotent == cl_pc = "done" => cl_out2 = cl_out

\* C4: a reply whose sanitized text is a flat object holding only canonical
\* fields yields the review form, not an error, and every canonical field
\* the reply lacks (gender included) has the empty string as its value.
C4_MissingFieldsEmpty ==
    LET parsed == json_loads(clean_json_response(attempt.text)) IN
    (/\ attempt.ran
     /\ attempt.ret = "text"
     /\ parsed.kind = "dict"
     /\ DOMAIN parsed.value \subseteq FieldSet) =>
        /\ attempt.shown.kind = "form"
        /\ \A f \in FieldSet \ DOMAIN parsed.value : attempt.shown.values[f] = ""

\* C5: a reply text, the empty one included, whose sanitized text is not
\* valid JSON ends in the parse error shown together with the raw reply.
C5_MalformedSurfaced ==
    (/\ attempt.ran
     /\ attempt.ret = "text"
     /\ json_loads(clean_json_response(attempt.text)).kind = "JSONDecodeError") =>
        /\ attempt.shown.kind = "parse_error"
        /\ attempt.shown.raw = attempt.text

\* C6: while a record is held (the review form is shown), a START EXTRACTION
\* run that ends in an extraction error or a parse error leaves the record
\* as it was.
C6_FailedReextractionKeepsRecord ==
    [][\A fail_at \in FailPoints, reply \in AppReplies, reply_none \in BOOLEAN :
          (/\ page.kind = "form"
           /\ StartExtraction(fail_at, reply, reply_none)
           /\ attempt'.shown.kind \in {"processing_error", "parse_error"}) =>
              /\ page'.kind = "form"
              /\ page'.values = page.values]_vars

\* C7: an edit of one field of the seeded record changes that field and
\* leaves the other ten as they were, in the record held after the rerun.
C7_EditChangesOneField ==
    [][\A f \in FieldSet, v \in EditValues :
          EditField(f, v) =>
              /\ page'.kind = "form"
              /\ page'.values = [page.values EXCEPT ![f] = v]]_vars

\* C8: a dictionary credential with neither project_id nor quota_project_id
\* ends in the processing error, and the backend is not called.
C8_NoProjectIdRejected ==
    (/\ attempt.ran
     /\ attempt.credential.json = "dict"
     /\ "project_id" \notin DOMAIN attempt.credential.data
     /\ "quota_project_id" \notin DOMAIN attempt.credential.data) =>
        /\ attempt.shown.kind = "processing_error"
        /\ ~attempt.backend_called

\* C9 as amended: the page-break check follows each field line (the last
\* one too), a page is started exactly when the cursor, moved below the line
\* just drawn, is under the bottom margin, every field line is drawn at or
\* above the bottom margin, and the 11 lines of any record end on one page,
\* in the order of the field list.
C9_CheckAfterEachLine ==
    /\ pdf_pc = "draw" => pdf_checks = Len(pdf_lines)
    /\ pdf_pc = "check" => pdf_checks = Len(pdf_lines) - 1
    /\ pdf_pc \in {"save", "done"} => pdf_checks = Len(pdf_lines)
    /\ \A k \in DOMAIN pdf_lines : pdf_lines[k].y >= BottomMargin
    /\ \A k \in DOMAIN pdf_lines :
          (k < Len(pdf_lines) \/ pdf_pc # "check") =>
             LET next_page == IF k < Len(pdf_lines) THEN pdf_lines[k + 1].page
                                                    ELSE pdf_page
             IN (next_page # pdf_lines[k].page) <=>
                   (pdf_lines[k].y - LineHeight < BottomMargin)
    /\ pdf_pc = "done" =>
          /\ pdf_saved = 1
          /\ Len(pdf_lines) = Len(CanonicalFields)
          /\ \A k \in DOMAIN pdf_lines :
                /\ pdf_lines[k].page = 1
                /\ pdf_lines[k].label = PdfLabels[k]
                /\ pdf_lines[k].text = Truncate(Get(pdf_data, CanonicalFields[k], ""))
                /\ k > 1 => pdf_lines[k].y < pdf_lines[k - 1].y

\* C9's case: a record's 11 lines have been drawn, each followed by its
\* check, and the document saved.
C9_Witness ==
    /\ pdf_pc = "done"
    /\ Len(pdf_lines) = 11
    /\ pdf_checks = 11
    /\ pdf_saved = 1
    /\ pdf_data = AshaRecord

\* C9 as stated: the page-break check is made before each field line is
\* drawn, every field line is drawn at or above the bottom margin, every
\* page started holds a field line, and a record without a break yields one
\* page with the 11 lines in order.
C9_CheckBeforeEachLine ==
    /\ pdf_pc = "draw" => pdf_checks = Len(pdf_lines) + 1
    /\ \A k \in DOMAIN pdf_lines : pdf_lines[k].y >= BottomMargin
    /\ pdf_pc = "done" =>
          \A p \in 2..pdf_page : \E k \in DOMAIN pdf_lines : pdf_lines[k].page = p
    /\ (pdf_pc = "done" /\ pdf_page = 1) =>
          /\ pdf_saved = 1
          /\ Len(pdf_lines) = Len(CanonicalFields)
          /\ \A k \in DOMAIN pdf_lines : pdf_lines[k].label = PdfLabels[k]

\* The words of a field name, split at its underscores.
FieldWords(f) ==
    CASE f = "election_number" -> <<"election", "number">>
      [] f = "relation_name" -> <<"relation", "name">>
      [] f = "date_of_birth" -> <<"date", "of", "birth">>
      [] f = "electoral_registration_officer" ->
            <<"electoral", "registration", "officer">>
      [] f = "issue_date" -> <<"issue", "date">>
      [] OTHER -> <<f>>

Capitalized(w) ==
    CASE w = "election" -> "Election"
      [] w = "number" -> "Number"
      [] w = "name" -> "Name"
      [] w = "relation" -> "Relation"
      [] w = "gender" -> "Gender"
      [] w = "date" -> "Date"
      [] w = "of" -> "Of"
      [] w = "birth" -> "Birth"
      [] w = "address" -> "Address"
      [] w = "city" -> "City"
      [] w = "state" -> "State"
      [] w = "pincode" -> "Pincode"
      [] w = "electoral" -> "Electoral"
      [] w = "registration" -> "Registration"
      [] w = "officer" -> "Officer"
      [] w = "issue" -> "Issue"
      [] OTHER -> w

\* The field name with underscores replaced by spaces, each word capitalized.
DisplayLabel(f) == [i \in DOMAIN FieldWords(f) |-> Capitalized(FieldWords(f)[i])]

\* C10: the document is one title line and then, for each canonical field in
\* order, its display label and its value, "N/A" standing for an empty value.
C10_LabelledLinesWithPlaceholder ==
    pdf_pc = "done" =>
        /\ Len(pdf_title) = 1
        /\ Len(pdf_lines) = Len(CanonicalFields)
        /\ \A k \in DOMAIN pdf_lines :
              LET value == Get(pdf_data, CanonicalFields[k], "") IN
              /\ pdf_lines[k].label = DisplayLabel(CanonicalFields[k])
              /\ pdf_lines[k].text = IF value = "" THEN "N/A" ELSE value

====
